---- MODULE Spec2Model ----
(***************************************************************************)
(* idTFlatMap (src/FlatMap.h): a map stored as an array of key/value pairs *)
(* sorted by key.  The model instantiates the template as                  *)
(* idFlatMap<int, bool> with the default comparator idLess, in a debug     *)
(* build (assert is active).  Two map objects exist so that Swap has an    *)
(* "other" map to exchange storage with.  The optional int *ppos of Set,   *)
(* AddIfNew and Remove is always passed; its value is the field pos of the *)
(* call record.  Definitions commented "faulty variant" are not part of    *)
(* the model: they are the seeded faults the properties are tried against. *)
(***************************************************************************)
EXTENDS Integers, Sequences, FiniteSets, TLC

\* Keys drawn by the callers of the key-based operations are 1..MaxKey.
MaxKey == 3
\* The stepwise FirstGE specification searches maps over 1..FGMaxKey.
FGMaxKey == 5

Keys == 1..MaxKey
\* Value = bool
Values == BOOLEAN
\* Value(): the value-initialised bool
DefaultValue == FALSE
\* the two map objects of the program
Maps == {"a", "b"}

VARIABLES
    container,  \* container[m]: the backing array of map m, a sequence of KeyVal
    last,       \* the most recent call: its name, arguments, *ppos and result
    aborted,    \* "no", or who stopped the process: "map" (an assert of FlatMap.h) or "container"
    shadow,     \* history: shadow[m][k] = <<v>> when v was last stored for k, <<>> when k is absent
    fg          \* the frame of a FirstGE call executed loop iteration by loop iteration

vars == <<container, last, aborted, shadow, fg>>

----------------------------------------------------------------------------
(* idLess and idKeyVal *)

comp(a, b) == a < b

KeyVal(k, v) == [key |-> k, value |-> v]

----------------------------------------------------------------------------
(* The backing array (idList and its relatives), indices from 0. *)

ListNum(c) == Len(c)

At(c, i) == c[i + 1]

ListInsert(c, kv, pos) == SubSeq(c, 1, pos) \o <<kv>> \o SubSeq(c, pos + 1, Len(c))

ListRemoveIndex(c, pos) == SubSeq(c, 1, pos) \o SubSeq(c, pos + 2, Len(c))

ListClear(c) == <<>>

ListReserve(c, count) == c

\* what the backing array may do with an index outside [0, Num): stop in a
\* check of its own, or return without removing anything
ListBadIndexOutcomes == {"container", "no"}

----------------------------------------------------------------------------
(* FirstGE: the binary search *)

FGStart(c) == [pos |-> -1, span |-> ListNum(c) + 1]

\* the index read by the loop body in frame st
FGProbe(st) == st.pos + (st.span \div 2)

\* faulty variant: the comparison of an upper-bound search (not greater, instead of less)
FGBody_UpperBound(c, key, st) ==
    LET step == st.span \div 2
    IN  [pos  |-> IF ~comp(key, At(c, st.pos + step).key) THEN st.pos + step ELSE st.pos,
         span |-> st.span - step]

\* faulty variant: the span is halved (span = step) instead of reduced by the step
FGBody_Halved(c, key, st) ==
    LET step == st.span \div 2
    IN  [pos  |-> IF comp(At(c, st.pos + step).key, key) THEN st.pos + step ELSE st.pos,
         span |-> step]

\* one iteration of the loop body
FGBody(c, key, st) ==
    LET step == st.span \div 2
    IN  [pos  |-> IF comp(At(c, st.pos + step).key, key) THEN st.pos + step ELSE st.pos,
         span |-> st.span - step]

RECURSIVE FGLoop(_, _, _)
FGLoop(c, key, st) ==
    IF st.span > 1 THEN FGLoop(c, key, FGBody(c, key, st)) ELSE st.pos + 1

FirstGE(c, key) == FGLoop(c, key, FGStart(c))

\* faulty variant: the test without its comparison
Hit_InRange(c, key, pos) == pos < ListNum(c)

\* the test "pos < container.Num() && comp(key, container[pos].key) == false"
Hit(c, key, pos) == pos < ListNum(c) /\ comp(key, At(c, pos).key) = FALSE

----------------------------------------------------------------------------
(* The const lookups.  A KeyVal* is modelled by the index it points at:    *)
(* <<pos>> is &container[pos], <<>> is NULL.                               *)

Find(c, key) ==
    LET pos == FirstGE(c, key)
    IN  IF Hit(c, key, pos) THEN <<pos>> ELSE <<>>

\* faulty variant: the position is returned without the test
FindIndex_NoTest(c, key) == FirstGE(c, key)

FindIndex(c, key) ==
    LET pos == FirstGE(c, key)
    IN  IF Hit(c, key, pos) THEN pos ELSE -1

GetValue(c, key, default) ==
    LET pos == FirstGE(c, key)
    IN  IF Hit(c, key, pos) THEN At(c, pos).value ELSE default

----------------------------------------------------------------------------
(* Insert(key, value, pos) on array c: the three asserts in their order,   *)
(* then container.Insert.  ok = FALSE: an assert failed, nothing stored.   *)

InsertAsserts(c, key, pos) ==
    /\ (pos >= 0 /\ pos <= ListNum(c))
    /\ (pos = 0 \/ comp(At(c, pos - 1).key, key) = TRUE)
    /\ (pos = ListNum(c) \/ comp(At(c, pos).key, key) = FALSE)

\* faulty variant: the pair is appended instead of inserted at pos
InsertAt_Append(c, key, value, pos) ==
    IF InsertAsserts(c, key, pos)
    THEN [ok |-> TRUE,  c |-> ListInsert(c, KeyVal(key, value), ListNum(c))]
    ELSE [ok |-> FALSE, c |-> c]

InsertAt(c, key, value, pos) ==
    IF InsertAsserts(c, key, pos)
    THEN [ok |-> TRUE,  c |-> ListInsert(c, KeyVal(key, value), pos)]
    ELSE [ok |-> FALSE, c |-> c]

AbortedBy(ok) == IF ok THEN "no" ELSE "map"

----------------------------------------------------------------------------
(* The history variable: the abstract map the calls describe. *)

Stored(m, key, value) == [shadow EXCEPT ![m][key] = <<value>>]

StoredIfNew(m, key, value) ==
    IF shadow[m][key] = <<>> THEN Stored(m, key, value) ELSE shadow

Erased(m, key) == [shadow EXCEPT ![m][key] = <<>>]

NoFrame == [pc |-> "idle"]

----------------------------------------------------------------------------
(* The operations.  Every operation runs to completion: a call is made    *)
(* when the previous one has returned, and none is made after an assert    *)
(* has stopped the process.                                                *)

Callable == aborted = "no" /\ last.op = "none" /\ fg.pc = "idle"

Clear(m, freeBuffer) ==
    /\ Callable
    /\ container' = [container EXCEPT ![m] = ListClear(container[m])]
    /\ shadow' = [shadow EXCEPT ![m] = [k \in DOMAIN shadow[m] |-> <<>>]]
    /\ last' = [op |-> "Clear", m |-> m, freeBuffer |-> freeBuffer]
    /\ UNCHANGED <<aborted, fg>>

Reserve(m, count) ==
    /\ Callable
    /\ container' = [container EXCEPT ![m] = ListReserve(container[m], count)]
    /\ last' = [op |-> "Reserve", m |-> m, count |-> count]
    /\ UNCHANGED <<aborted, shadow, fg>>

Swap(m, other) ==
    /\ Callable
    /\ container' = [container EXCEPT ![m] = container[other], ![other] = container[m]]
    /\ shadow' = [shadow EXCEPT ![m] = shadow[other], ![other] = shadow[m]]
    /\ last' = [op |-> "Swap", m |-> m, other |-> other]
    /\ UNCHANGED <<aborted, fg>>

Insert(m, key, value, pos) ==
    /\ Callable
    /\ LET r == InsertAt(container[m], key, value, pos)
       IN  /\ container' = [container EXCEPT ![m] = r.c]
           /\ aborted' = AbortedBy(r.ok)
           /\ shadow' = IF r.ok THEN Stored(m, key, value) ELSE shadow
    /\ last' = [op |-> "Insert", m |-> m, key |-> key, value |-> value, pos |-> pos]
    /\ UNCHANGED fg

RemoveIndex(m, pos) ==
    /\ Callable
    /\ LET c == container[m]
       IN  IF 0 <= pos /\ pos < ListNum(c)
           THEN /\ container' = [container EXCEPT ![m] = ListRemoveIndex(c, pos)]
                /\ shadow' = Erased(m, At(c, pos).key)
                /\ aborted' = aborted
           ELSE /\ aborted' \in ListBadIndexOutcomes
                /\ UNCHANGED <<container, shadow>>
    /\ last' = [op |-> "RemoveIndex", m |-> m, pos |-> pos]
    /\ UNCHANGED fg

\* faulty variant: Get inserts the default for an absent key, as operator[] does
Get_Inserting(m, key, default) ==
    /\ Callable
    /\ LET c == container[m]
           pos == FirstGE(c, key)
       IN  /\ container' = [container EXCEPT ![m] =
                  IF Hit(c, key, pos) THEN c ELSE InsertAt(c, key, default, pos).c]
           /\ last' = [op |-> "Get", m |-> m, key |-> key, default |-> default,
                       ret |-> GetValue(c, key, default)]
    /\ UNCHANGED <<aborted, shadow, fg>>

Get(m, key, default) ==
    /\ Callable
    /\ last' = [op |-> "Get", m |-> m, key |-> key, default |-> default,
                ret |-> GetValue(container[m], key, default)]
    /\ UNCHANGED <<container, aborted, shadow, fg>>

\* faulty variant: operator[] without its Insert
Index_NoInsert(m, key) ==
    /\ Callable
    /\ last' = [op |-> "Index", m |-> m, key |-> key,
                ref |-> FirstGE(container[m], key)]
    /\ UNCHANGED <<container, aborted, shadow, fg>>

\* operator[]: ref is the index of the entry whose value the reference designates
Index(m, key) ==
    /\ Callable
    /\ LET c == container[m]
           pos == FirstGE(c, key)
       IN  IF Hit(c, key, pos)
           THEN UNCHANGED <<container, aborted, shadow>>
           ELSE LET r == InsertAt(c, key, DefaultValue, pos)
                IN  /\ container' = [container EXCEPT ![m] = r.c]
                    /\ aborted' = AbortedBy(r.ok)
                    /\ shadow' = StoredIfNew(m, key, DefaultValue)
    /\ last' = [op |-> "Index", m |-> m, key |-> key,
                ref |-> FirstGE(container[m], key)]
    /\ UNCHANGED fg

Set(m, key, value) ==
    /\ Callable
    /\ LET c == container[m]
           pos == FirstGE(c, key)
       IN  IF Hit(c, key, pos)
           THEN /\ container' = [container EXCEPT ![m][pos + 1].value = value]
                /\ aborted' = aborted
                /\ last' = [op |-> "Set", m |-> m, key |-> key, value |-> value,
                            pos |-> pos, ret |-> FALSE]
           ELSE LET r == InsertAt(c, key, value, pos)
                IN  /\ container' = [container EXCEPT ![m] = r.c]
                    /\ aborted' = AbortedBy(r.ok)
                    /\ last' = [op |-> "Set", m |-> m, key |-> key, value |-> value,
                                pos |-> pos, ret |-> TRUE]
    /\ shadow' = Stored(m, key, value)
    /\ UNCHANGED fg

\* faulty variant: AddIfNew assigns the value of a key that is present
AddIfNew_Overwriting(m, key, value) ==
    /\ Callable
    /\ LET c == container[m]
           pos == FirstGE(c, key)
       IN  IF Hit(c, key, pos)
           THEN /\ container' = [container EXCEPT ![m][pos + 1].value = value]
                /\ aborted' = aborted
                /\ last' = [op |-> "AddIfNew", m |-> m, key |-> key, value |-> value,
                            pos |-> pos, ret |-> FALSE]
           ELSE LET r == InsertAt(c, key, value, pos)
                IN  /\ container' = [container EXCEPT ![m] = r.c]
                    /\ aborted' = AbortedBy(r.ok)
                    /\ last' = [op |-> "AddIfNew", m |-> m, key |-> key, value |-> value,
                                pos |-> pos, ret |-> TRUE]
    /\ shadow' = StoredIfNew(m, key, value)
    /\ UNCHANGED fg

AddIfNew(m, key, value) ==
    /\ Callable
    /\ LET c == container[m]
           pos == FirstGE(c, key)
       IN  IF Hit(c, key, pos)
           THEN /\ UNCHANGED <<container, aborted>>
                /\ last' = [op |-> "AddIfNew", m |-> m, key |-> key, value |-> value,
                            pos |-> pos, ret |-> FALSE]
           ELSE LET r == InsertAt(c, key, value, pos)
                IN  /\ container' = [container EXCEPT ![m] = r.c]
                    /\ aborted' = AbortedBy(r.ok)
                    /\ last' = [op |-> "AddIfNew", m |-> m, key |-> key, value |-> value,
                                pos |-> pos, ret |-> TRUE]
    /\ shadow' = StoredIfNew(m, key, value)
    /\ UNCHANGED fg

\* faulty variant: Remove deletes the entry after the one it found
Remove_OffByOne(m, key) ==
    /\ Callable
    /\ LET c == container[m]
           pos == FirstGE(c, key)
       IN  IF Hit(c, key, pos)
           THEN /\ container' = [container EXCEPT ![m] = ListRemoveIndex(c, pos + 1)]
                /\ last' = [op |-> "Remove", m |-> m, key |-> key,
                            pos |-> pos, ret |-> TRUE]
           ELSE /\ UNCHANGED container
                /\ last' = [op |-> "Remove", m |-> m, key |-> key,
                            pos |-> pos, ret |-> FALSE]
    /\ shadow' = Erased(m, key)
    /\ UNCHANGED <<aborted, fg>>

Remove(m, key) ==
    /\ Callable
    /\ LET c == container[m]
           pos == FirstGE(c, key)
       IN  IF Hit(c, key, pos)
           THEN /\ container' = [container EXCEPT ![m] = ListRemoveIndex(c, pos)]
                /\ last' = [op |-> "Remove", m |-> m, key |-> key,
                            pos |-> pos, ret |-> TRUE]
           ELSE /\ UNCHANGED container
                /\ last' = [op |-> "Remove", m |-> m, key |-> key,
                            pos |-> pos, ret |-> FALSE]
    /\ shadow' = Erased(m, key)
    /\ UNCHANGED <<aborted, fg>>

----------------------------------------------------------------------------
(* Spec: the maps used through the key-based operations, with RemoveIndex  *)
(* given an index in [0, N) and Insert a position FirstGE returned for a   *)
(* key that is absent.                                                     *)

Init ==
    /\ container = [m \in Maps |-> <<>>]
    /\ shadow = [m \in Maps |-> [k \in Keys |-> <<>>]]
    /\ last = [op |-> "none"]
    /\ aborted = "no"
    /\ fg = NoFrame

InsertFound(m, key, value) ==
    /\ Callable
    /\ FindIndex(container[m], key) = -1
    /\ Insert(m, key, value, FirstGE(container[m], key))

RemoveFound(m, pos) ==
    /\ Callable
    /\ 0 <= pos /\ pos < ListNum(container[m])
    /\ RemoveIndex(m, pos)

\* the caller has the result of the previous call and makes the next one:
\* calls are synchronous and never overlap
Return ==
    /\ last.op # "none"
    /\ aborted = "no"
    /\ fg.pc = "idle"
    /\ last' = [op |-> "none"]
    /\ UNCHANGED <<container, aborted, shadow, fg>>

Next ==
    \/ \E m \in Maps :
        \/ \E key \in Keys, value \in Values :
              \/ Set(m, key, value)
              \/ AddIfNew(m, key, value)
              \/ InsertFound(m, key, value)
              \/ Get(m, key, value)
        \/ \E key \in Keys :
              \/ Index(m, key)
              \/ Remove(m, key)
        \/ \E pos \in 0..MaxKey : RemoveFound(m, pos)
        \/ \E freeBuffer \in BOOLEAN : Clear(m, freeBuffer)
        \/ \E count \in {0, MaxKey} : Reserve(m, count)
        \/ \E other \in Maps \ {m} : Swap(m, other)
    \/ Return

Spec == Init /\ [][Next]_vars

----------------------------------------------------------------------------
(* SpecFG: FirstGE executed one loop iteration at a time on sorted maps of *)
(* up to FGMaxKey entries, for keys below, between, at and above them.     *)

FGKeys == 1..FGMaxKey

FGProbeKeys == 0..(FGMaxKey + 1)

RECURSIVE Ascending(_)
Ascending(S) ==
    IF S = {} THEN <<>>
    ELSE LET x == CHOOSE y \in S : \A z \in S : y <= z
         IN  <<KeyVal(x, DefaultValue)>> \o Ascending(S \ {x})

InitFG ==
    /\ \E S \in SUBSET FGKeys :
          /\ container = [m \in Maps |-> IF m = "a" THEN Ascending(S) ELSE <<>>]
          /\ shadow = [m \in Maps |-> [k \in FGKeys |->
                          IF m = "a" /\ k \in S THEN <<DefaultValue>> ELSE <<>>]]
    /\ last = [op |-> "none"]
    /\ aborted = "no"
    /\ fg = NoFrame

\* int pos = -1; int span = container.Num() + 1;
FGCall(m, key) ==
    /\ Callable
    /\ fg' = [pc |-> "loop", m |-> m, key |-> key, st |-> FGStart(container[m]),
              reads |-> <<>>]
    /\ UNCHANGED <<container, last, aborted, shadow>>

\* while (span > 1) { ... }: reads lists the indices container[...] was read at
FGIterate ==
    /\ fg.pc = "loop"
    /\ fg.st.span > 1
    /\ fg' = [fg EXCEPT !.st = FGBody(container[fg.m], fg.key, fg.st),
                        !.reads = Append(@, FGProbe(fg.st))]
    /\ UNCHANGED <<container, last, aborted, shadow>>

\* return pos + 1;
FGReturn ==
    /\ fg.pc = "loop"
    /\ ~(fg.st.span > 1)
    /\ last' = [op |-> "FirstGE", m |-> fg.m, key |-> fg.key,
                ret |-> fg.st.pos + 1, reads |-> fg.reads]
    /\ fg' = NoFrame
    /\ UNCHANGED <<container, aborted, shadow>>

NextFG ==
    \/ \E key \in FGProbeKeys : FGCall("a", key)
    \/ FGIterate
    \/ FGReturn
    \/ Return

\* a call that has started runs to its return
SpecFG == InitFG /\ [][NextFG]_vars /\ WF_vars(FGIterate \/ FGReturn)

----------------------------------------------------------------------------
(* SpecRaw: the positioned operations called with any position, in range   *)
(* or not, sorted or not.                                                  *)

RawPositions == (0 - 1)..(MaxKey + 2)

InsertAny(m, key, value, pos) ==
    /\ Callable
    /\ ListNum(container[m]) <= MaxKey
    /\ Insert(m, key, value, pos)

NextRaw ==
    \/ \E key \in Keys, value \in Values, pos \in RawPositions :
          InsertAny("a", key, value, pos)
    \/ \E pos \in RawPositions : RemoveIndex("a", pos)
    \/ Return

SpecRaw == Init /\ [][NextRaw]_vars

----------------------------------------------------------------------------
(* Vocabulary of the properties, stated without FirstGE. *)

Indices(c) == 0..(Len(c) - 1)

IsSorted(c) == \A i, j \in Indices(c) : i < j => comp(At(c, i).key, At(c, j).key)

NoEqualKeys(c) == \A i, j \in Indices(c) : i # j => At(c, i).key # At(c, j).key

HasKey(c, key) == \E i \in Indices(c) : At(c, i).key = key

CountLess(c, key) == Cardinality({i \in Indices(c) : At(c, i).key < key})

\* the entries of c other than the one with this key, in their order
Without(c, key) == SelectSeq(c, LAMBDA e : e.key # key)

OthersUnchanged(m) == \A o \in Maps \ {m} : container'[o] = container[o]

----------------------------------------------------------------------------
\* C1: after any sequence of the key-based operations, RemoveIndex with an
\* index in [0, N), Clear, Reserve, Swap and Insert at the position FirstGE
\* gave for an absent key, the entries of every map are strictly ascending
\* by key, and so no two entries have equal keys.
C1_SortedUnique ==
    \A m \in Maps : IsSorted(container[m]) /\ NoEqualKeys(container[m])

\* a full map just swapped with another non-trivial map
C1_Witness ==
    /\ last.op = "Swap"
    /\ Len(container[last.m]) = MaxKey
    /\ Len(container[last.other]) >= 2

\* C2: FirstGE(K) on a sorted map of N entries returns a value in [0, N]
\* that is the number of entries with key less than K: the smallest index
\* whose key is not less than K, or N when there is none.
C2_FirstGECountsLess ==
    last.op = "FirstGE" =>
        LET c == container[last.m]
        IN  /\ last.ret \in 0..Len(c)
            /\ last.ret = CountLess(c, last.key)
            /\ \A i \in Indices(c) : i < last.ret => comp(At(c, i).key, last.key)
            /\ last.ret < Len(c) => ~comp(At(c, last.ret).key, last.key)

\* a search that ends strictly inside a full map
C2_Witness ==
    /\ last.op = "FirstGE"
    /\ Len(container[last.m]) = FGMaxKey
    /\ last.ret > 1 /\ last.ret < FGMaxKey - 1

\* C3: for every key K, Find(K) is non-NULL exactly when an entry has key K;
\* the entry it points at has key K and the value last stored for K;
\* FindIndex(K) is the index of that entry, and -1 when K is absent.
C3_LookupCorrect ==
    \A m \in Maps : \A key \in DOMAIN shadow[m] :
        LET c == container[m]
            f == Find(c, key)
            idx == FindIndex(c, key)
        IN  /\ (f # <<>>) <=> HasKey(c, key)
            /\ (f # <<>>) <=> (shadow[m][key] # <<>>)
            /\ f # <<>> =>
                  /\ f[1] \in Indices(c)
                  /\ At(c, f[1]).key = key
                  /\ <<At(c, f[1]).value>> = shadow[m][key]
                  /\ idx = f[1]
            /\ f = <<>> => idx = -1

\* a value that overwrote the inserted one in a full map
C3_Witness ==
    /\ last.op = "Set"
    /\ last.ret = FALSE
    /\ last.value # DefaultValue
    /\ Len(container[last.m]) = MaxKey
    /\ \E key \in Keys : HasKey(container[last.m], key) /\ shadow[last.m][key] = <<DefaultValue>>

\* C4: Set(K, V, &outPos): K present: only that entry's value becomes V,
\* false is returned, Num() and every other entry are unchanged; K absent:
\* {K, V} is inserted, true is returned, Num() grows by one and the prior
\* entries keep their order; outPos is the index of K's entry after the
\* call and Get(K) then returns V.
C4_Set ==
    [][last'.op = "Set" =>
        LET m == last'.m
            key == last'.key
            value == last'.value
            c == container[m]
            d == container'[m]
        IN  /\ aborted' = "no"
            /\ OthersUnchanged(m)
            /\ last'.ret = ~HasKey(c, key)
            /\ HasKey(c, key) =>
                  /\ Len(d) = Len(c)
                  /\ \A i \in Indices(c) :
                        At(d, i) = IF At(c, i).key = key THEN KeyVal(key, value) ELSE At(c, i)
            /\ ~HasKey(c, key) =>
                  /\ Len(d) = Len(c) + 1
                  /\ Without(d, key) = c
            /\ last'.pos \in Indices(d)
            /\ At(d, last'.pos) = KeyVal(key, value)
            /\ \A default \in Values : GetValue(d, key, default) = value
    ]_vars

\* Set put a new key between two entries
C4_Witness ==
    /\ last.op = "Set"
    /\ last.ret = TRUE
    /\ last.pos = 1
    /\ Len(container[last.m]) = MaxKey

\* C5: Remove(K, &outPos): K absent: false, the map is unchanged; K present:
\* true, exactly K's entry is deleted, the others keep keys, values and
\* order, and Find(K) is then NULL; outPos is the index the entry had, or
\* the index where K would be inserted.
C5_Remove ==
    [][last'.op = "Remove" =>
        LET m == last'.m
            key == last'.key
            c == container[m]
            d == container'[m]
        IN  /\ aborted' = "no"
            /\ OthersUnchanged(m)
            /\ last'.ret = HasKey(c, key)
            /\ ~HasKey(c, key) => d = c
            /\ HasKey(c, key) =>
                  /\ Len(d) = Len(c) - 1
                  /\ d = Without(c, key)
                  /\ At(c, last'.pos).key = key
            /\ Find(d, key) = <<>>
            /\ last'.pos = CountLess(c, key)
    ]_vars

\* Remove deleted an entry that had entries on both sides
C5_Witness ==
    /\ last.op = "Remove"
    /\ last.ret = TRUE
    /\ last.pos = 1
    /\ Len(container[last.m]) = MaxKey - 1

\* C6: AddIfNew(K, V, &outPos): K present: false, the whole map is
\* unchanged, the stored value is not replaced by V; K absent: {K, V} is
\* inserted at the sorted position, true; outPos is the index of K's entry
\* after the call.
C6_AddIfNew ==
    [][last'.op = "AddIfNew" =>
        LET m == last'.m
            key == last'.key
            value == last'.value
            c == container[m]
            d == container'[m]
        IN  /\ aborted' = "no"
            /\ OthersUnchanged(m)
            /\ last'.ret = ~HasKey(c, key)
            /\ HasKey(c, key) => d = c
            /\ ~HasKey(c, key) =>
                  /\ Without(d, key) = c
                  /\ Len(d) = Len(c) + 1
                  /\ At(d, last'.pos) = KeyVal(key, value)
                  /\ IsSorted(d)
            /\ last'.pos \in Indices(d)
            /\ At(d, last'.pos).key = key
    ]_vars

\* AddIfNew refused a value different from the stored one
C6_Witness ==
    /\ last.op = "AddIfNew"
    /\ last.ret = FALSE
    /\ At(container[last.m], last.pos).value # last.value
    /\ Len(container[last.m]) >= 2

\* C7: Get(K, D) returns K's stored value when K is present and D when it
\* is absent, and leaves Num() and all entries as they were: it never
\* inserts K.
C7_Get ==
    [][last'.op = "Get" =>
        LET c == container[last'.m]
        IN  /\ container' = container
            /\ aborted' = "no"
            /\ HasKey(c, last'.key) =>
                  \E i \in Indices(c) :
                      At(c, i).key = last'.key /\ last'.ret = At(c, i).value
            /\ ~HasKey(c, last'.key) => last'.ret = last'.default
    ]_vars

\* Get answered the default for a key absent from a non-empty map
C7_Witness ==
    /\ last.op = "Get"
    /\ ~HasKey(container[last.m], last.key)
    /\ container[last.m] # <<>>
    /\ last.ret = last.default
    /\ last.default # DefaultValue

\* C8: in a debug build every precondition violation of the positioned
\* operations is checked by the map, which stops with an assertion before
\* any entry is changed: RemoveIndex(pos) with pos < 0 or pos >= N,
\* Insert(key, value, pos) with pos < 0 or pos > N, or with the entry before
\* pos not less than key, or the entry at pos less than key.
C8_PositionsChecked ==
    [][LET c == container[last'.m]
           pos == last'.pos
       IN  \/ /\ last'.op = "RemoveIndex"
              /\ (pos < 0 \/ pos >= Len(c))
           \/ /\ last'.op = "Insert"
              /\ \/ pos < 0 \/ pos > Len(c)
                 \/ (pos > 0 /\ ~comp(At(c, pos - 1).key, last'.key))
                 \/ (pos < Len(c) /\ comp(At(c, pos).key, last'.key))
       => /\ aborted' = "map"
          /\ container' = container
    ]_vars

\* C9: operator[](K): K present: the map is unchanged and the reference
\* designates the existing value; K absent: exactly one entry
\* {K, Value()} is inserted at index FirstGE(K), the other entries and
\* their order are kept, and the reference designates the new entry's value.
C9_Index ==
    [][last'.op = "Index" =>
        LET m == last'.m
            key == last'.key
            c == container[m]
            d == container'[m]
        IN  /\ aborted' = "no"
            /\ OthersUnchanged(m)
            /\ last'.ref \in Indices(d)
            /\ At(d, last'.ref).key = key
            /\ HasKey(c, key) => d = c
            /\ ~HasKey(c, key) =>
                  /\ Len(d) = Len(c) + 1
                  /\ Without(d, key) = c
                  /\ last'.ref = CountLess(c, key)
                  /\ At(d, last'.ref) = KeyVal(key, DefaultValue)
    ]_vars

\* operator[] created an entry between two others
C9_Witness ==
    /\ last.op = "Index"
    /\ last.ref = 1
    /\ Len(container[last.m]) = MaxKey
    /\ shadow[last.m][last.key] = <<DefaultValue>>
    /\ \E key \in Keys : shadow[last.m][key] = <<TRUE>>

\* what holds of the frame of FirstGE while the loop runs
C10_LoopFrame ==
    fg.pc = "loop" =>
        LET c == container[fg.m]
            N == Len(c)
            answer == CountLess(c, fg.key)
        IN  /\ fg.st.span >= 1
            /\ fg.st.pos < answer /\ answer <= fg.st.pos + fg.st.span
            /\ fg.st.pos + fg.st.span <= N
            /\ fg.st.span > 1 => FGProbe(fg.st) \in 0..(N - 1)
            /\ \A k \in 1..Len(fg.reads) : fg.reads[k] \in 0..(N - 1)
            /\ N = 0 => fg.reads = <<>> /\ fg.st.span = 1

\* what an iteration does to span
C10_SpanDecreases ==
    (fg.pc = "loop" /\ fg'.pc = "loop") =>
        /\ fg'.st.span < fg.st.span
        /\ fg'.st.span >= 1

\* C10: the loop of FirstGE terminates, span decreasing strictly down to 1;
\* every index it reads container[...] at lies in [0, N-1], so for N = 0 it
\* reads nothing; and at every iteration the answer is in (pos, pos + span]
\* with pos + span <= N.
C10_FirstGELoop ==
    /\ []C10_LoopFrame
    /\ [][C10_SpanDecreases]_vars
    /\ (fg.pc = "loop") ~> (fg.pc = "idle" /\ last.op = "FirstGE")

\* the loop, on a full map, has read two elements and is still running
C10_Witness ==
    /\ fg.pc = "loop"
    /\ Len(container[fg.m]) = FGMaxKey
    /\ Len(fg.reads) = 2
    /\ fg.st.span > 1

====
